---- MODULE Spec2Model ----
(***************************************************************************)
(* Model of Omniconsole/midi2grandma/midi2grandma.ino: two analog faders,  *)
(* each smoothed by a 5-slot circular moving average, converted to a MIDI  *)
(* value with endpoint snapping, and sent as a Control Change when the     *)
(* deadzone and the minimum send interval both allow it.                   *)
(*                                                                         *)
(* Widths.  The sketch targets the boards MIDIUSB supports.  `long` is 32  *)
(* bits and `int` at least 16; with samples that fit an int the sum of 5   *)
(* of them fits a long, so total[] never overflows and is kept as a plain  *)
(* integer.  `unsigned long` (millis, lastSendTime) is 32 bits and is      *)
(* modelled with its width, as a pair <<high half, low half>> of 16-bit    *)
(* halves, because TLC's integers stop at 2^31 - 1.                         *)
(***************************************************************************)
EXTENDS Integers, Sequences, FiniteSets, TLC

(* ---------------------------------------------------------------- CONFIG *)
AVG_SIZE == 5
DEADZONE == 3
RAW_ENDZONE == 20
SEND_INTERVAL == 15
MIDI_CC1 == 7
MIDI_CC2 == 8
MIDI_CHANNEL == 1
FADER_COUNT == 2
RAW_MAX == 1023
MIDI_MAX == 127
CC_HEADER == 11
CC_STATUS == 176
NO_VALUE == -1

Faders == 0 .. (FADER_COUNT - 1)
Slots == 0 .. (AVG_SIZE - 1)
midiCC == [g \in Faders |-> IF g = 0 THEN MIDI_CC1 ELSE MIDI_CC2]

(* ---------------------------------------------------------------- bounds *)
\* The millisecond clock of a run stays at or below MaxClock.
MaxClock == 45
\* The conversion is checked for every average in -AvgBound .. AvgBound.
AvgBound == 1100
\* Steady ticks at 500 that may precede the ramp of the ramp scenario.
MaxLead == 2
\* Milliseconds left before the counter wraps at the first call of loop() of
\* the wraparound runs.
WrapLead == 30
\* What millis() may have advanced by between two calls of loop().
Deltas == {0, 14, 15}

(* ------------------------------------------------------- 32-bit unsigned *)
HALF == 65536

UL(n) == <<n \div HALF, n % HALF>>

ULAdd(a, b) ==
    LET lo == a[2] + b[2]
        carry == lo \div HALF
    IN  <<(a[1] + b[1] + carry) % HALF, lo % HALF>>

\* a - b in unsigned long arithmetic (modulo 2^32).
ULSub(a, b) ==
    LET lo == a[2] - b[2]
        borrow == IF lo < 0 THEN 1 ELSE 0
    IN  <<(a[1] - b[1] - borrow) % HALF, lo % HALF>>

ULGe(a, b) == a[1] > b[1] \/ (a[1] = b[1] /\ a[2] >= b[2])

\* True time, which does not wrap: a + b with the high half left to grow.
BigAdd(a, b) ==
    LET lo == a[2] + b[2]
    IN  <<a[1] + b[1] + (lo \div HALF), lo % HALF>>

(* --------------------------------------------------------- C arithmetic  *)
\* C's integer division truncates toward zero.
TruncDiv(a, b) == IF a >= 0 THEN a \div b ELSE -((-a) \div b)

Abs(x) == IF x > 0 THEN x ELSE -x

Constrain(x, lo, hi) == IF x < lo THEN lo ELSE IF x > hi THEN hi ELSE x

\* (mutant) the input range taken the wrong way round.
MapReversed(x, inMin, inMax, outMin, outMax) ==
    TruncDiv((x - inMax) * (outMax - outMin), inMin - inMax) + outMin

\* Arduino's map(): (x - in_min) * (out_max - out_min) / (in_max - in_min) + out_min.
Map(x, inMin, inMax, outMin, outMax) ==
    TruncDiv((x - inMin) * (outMax - outMin), inMax - inMin) + outMin

\* Conversion of an int to a byte argument.
ToByte(x) == x % 256

RECURSIVE BitOr(_, _)
BitOr(a, b) ==
    IF a = 0 THEN b
    ELSE IF b = 0 THEN a
    ELSE (IF a % 2 = 1 \/ b % 2 = 1 THEN 1 ELSE 0) + 2 * BitOr(a \div 2, b \div 2)

\* The arithmetic sum of the slots 0 .. n-1 of a buffer.
RECURSIVE SumSlots(_, _)
SumSlots(r, n) == IF n = 0 THEN 0 ELSE r[n - 1] + SumSlots(r, n - 1)

(* ------------------------------------------------------------- the state *)
VARIABLES
    pin,            \* environment: per fader, the sets of values its next reads may return
    clock,          \* environment: the millisecond counter behind millis()
    readings,       \* int readings[FADER_COUNT][AVG_SIZE]
    readIndex,      \* int readIndex[FADER_COUNT]
    total,          \* long total[FADER_COUNT]
    lastMidiValue,  \* int lastMidiValue[FADER_COUNT]
    lastSendTime,   \* unsigned long lastSendTime[FADER_COUNT]
    pc,             \* "setup", "idle" (between calls of loop), "loop", or "map"/"mapped"
    f,              \* the for-loop index of loop()
    now,            \* loop()'s local `now`
    avgRaw,         \* per fader, loop()'s local avgRaw in the latest iteration for it
    midiValue,      \* per fader, loop()'s local midiValue in the latest iteration for it
    wire,           \* what the current call of loop() has handed to MidiUSB, in order
    hist,           \* history: per fader, every sample read so far kept to the last AVG_SIZE
    nSent,          \* history: per fader, the number of sendCC calls so far
    sentLast,       \* history: per fader, the data2 byte of its latest message
    since           \* history: per fader, the true milliseconds from its latest message
                    \* (from the start, before the first) to the latest millis() read

vars == <<pin, clock, readings, readIndex, total, lastMidiValue, lastSendTime,
          pc, f, now, avgRaw, midiValue, wire, hist, nSent, sentLast, since>>

(* ------------------------------------------------------- the environment *)
\* A pin is a non-empty sequence of sets: a read returns a member of the
\* first set and drops it, except that the last set stays for ever.
Rest(t) == IF Len(t) > 1 THEN Tail(t) ELSE t

\* The outcomes of n successive analogRead calls: <<samples, pin afterwards>>.
RECURSIVE Reads(_, _)
Reads(t, n) ==
    IF n = 0 THEN {<<<<>>, t>>}
    ELSE UNION {{<<<<s>> \o r[1], r[2]>> : r \in Reads(Rest(t), n - 1)} : s \in Head(t)}

Free(S) == <<S>>

\* One fader moved freely between the samples 0 and 60, the other at rest at 60.
LowSamples == {0, 60}
PinsMain ==
    {[g \in Faders |-> IF g = r THEN Free(LowSamples) ELSE Free({60})] : r \in Faders}

\* Samples outside the raw range 0 .. 1023, down to the ends of a 16-bit int: one
\* fader free over a pair of them, the other at rest at 1500.
WildSamples == {{-2000, 3000}, {-7, 1030}, {-32768, 32767}}
PinsWild ==
    {[g \in Faders |-> IF g = r THEN Free(S) ELSE Free({1500})] :
        r \in Faders, S \in WildSamples}

\* One fader at full scale for ever, the other free over both ends.
PinsFull ==
    {[g \in Faders |-> IF g = r THEN Free({RAW_MAX}) ELSE Free({0, RAW_MAX})] :
        r \in Faders}

\* One fader at rest at 500 through setup() and up to MaxLead ticks, then read as
\* 500, 505, 510, 515, 520 in five ticks and at rest at 520; the other at rest at 60.
Steady(n, v) == [i \in 1 .. n |-> {v}]
Ramp == <<{500}, {505}, {510}, {515}, {520}>>
RampPin(lead) == Steady(AVG_SIZE + lead, 500) \o Ramp \o <<{520}>>
PinsRamp ==
    {[g \in Faders |-> IF g = r THEN RampPin(lead) ELSE Free({60})] :
        r \in Faders, lead \in 0 .. MaxLead}

\* One fader moved freely through setup() and up to MaxLead ticks and then at
\* rest at 0 or at 60 for ever; the other at rest at 60.
SettlePin(lead, v) == [i \in 1 .. (AVG_SIZE + lead) |-> LowSamples] \o <<{v}>>
PinsSettle ==
    {[g \in Faders |-> IF g = r THEN SettlePin(lead, v) ELSE Free({60})] :
        r \in Faders, lead \in 0 .. MaxLead, v \in LowSamples}

(* ------------------------------------------------------ the loop's steps *)
\* (mutant) the old slot value is not taken out of the sum.
NewTotalKeepsOld(t, old, s) == t + s

\* lines 45-49: the running sum after replacing the slot's old value.
NewTotal(t, old, s) == (t - old) + s

\* (mutant) the cursor is not advanced.
NextIndexStuck(i) == i

\* line 52
NextIndex(i) == (i + 1) % AVG_SIZE

\* (mutant) the sum divided by one more than the window holds.
AverageOfSix(t) == TruncDiv(t, AVG_SIZE + 1)

\* line 55
Average(t) == TruncDiv(t, AVG_SIZE)

\* (mutant) the high end snaps one step late.
MidiOfLate(avg) ==
    IF avg <= RAW_ENDZONE THEN 0
    ELSE IF avg > RAW_MAX - RAW_ENDZONE THEN MIDI_MAX
    ELSE Constrain(Map(avg, 0, RAW_MAX, 0, MIDI_MAX), 0, MIDI_MAX)

\* (mutant) the conversion without the high snap and the clamp.
MidiOfUnclamped(avg) ==
    IF avg <= RAW_ENDZONE THEN 0 ELSE Map(avg, 0, RAW_MAX, 0, MIDI_MAX)

\* (mutant) the conversion without the low snap.
MidiOfNoLowSnap(avg) ==
    IF avg >= RAW_MAX - RAW_ENDZONE THEN MIDI_MAX
    ELSE Constrain(Map(avg, 0, RAW_MAX, 0, MIDI_MAX), 0, MIDI_MAX)

\* lines 58-66
MidiOf(avg) ==
    IF avg <= RAW_ENDZONE THEN 0
    ELSE IF avg >= RAW_MAX - RAW_ENDZONE THEN MIDI_MAX
    ELSE Constrain(Map(avg, 0, RAW_MAX, 0, MIDI_MAX), 0, MIDI_MAX)

\* (mutant) the comparison with the deadzone turned round.
DeadzoneOkInverted(mv, last) == Abs(mv - last) <= DEADZONE

\* (mutant) any change of the output passes.
DeadzoneOkAny(mv, last) == mv # last

\* (mutant) a deadzone one step too narrow.
DeadzoneOkNarrow(mv, last) == Abs(mv - last) >= DEADZONE - 1

\* line 68
DeadzoneOk(mv, last) == Abs(mv - last) >= DEADZONE

\* line 69
Elapsed(t, last) == ULSub(t, last)
\* (mutant) an interval one millisecond too short.
IntervalOkShort(t, last) == ULGe(Elapsed(t, last), UL(SEND_INTERVAL - 1))

\* (mutant) the clock compared with the time the next message is due at.
IntervalOkDueTime(t, last) == ULGe(t, ULAdd(last, UL(SEND_INTERVAL)))

IntervalOk(t, last) == ULGe(Elapsed(t, last), UL(SEND_INTERVAL))

\* (mutant) the emitted value is not recorded.
SentValueStale(emit, mv, old) == old

\* line 71: lastMidiValue[f] after the if statement.
SentValue(emit, mv, old) == IF emit THEN mv ELSE old

\* (mutant) the time of the emission is not recorded.
SentTimeStale(emit, t, old) == old

\* line 72: lastSendTime[f] after the if statement.
SentTime(emit, t, old) == IF emit THEN t ELSE old

\* (mutant) the status byte takes the 1-based channel number as it is.
PacketOneBased(control, value, channel) ==
    [op |-> "send", header |-> CC_HEADER,
     status |-> ToByte(BitOr(CC_STATUS, channel)),
     data1 |-> ToByte(control), data2 |-> ToByte(value)]

\* lines 77-86: what sendCC hands to MidiUSB.
Packet(control, value, channel) ==
    [op |-> "send", header |-> CC_HEADER,
     status |-> ToByte(BitOr(CC_STATUS, channel - 1)),
     data1 |-> ToByte(control), data2 |-> ToByte(value)]
Flush == [op |-> "flush"]
SendCC(control, value, channel) == <<Packet(control, value, channel), Flush>>

\* line 35, over the reads of one fader: total[f] += readings[f][i].
RECURSIVE Accumulate(_, _)
Accumulate(t, samples) ==
    IF samples = <<>> THEN t ELSE Accumulate(t + Head(samples), Tail(samples))

Push(h, s) == IF Len(h) < AVG_SIZE THEN Append(h, s) ELSE Append(Tail(h), s)

(* ------------------------------------------------------------------ Init *)
\* The globals as their initialisers leave them (lines 19-24), at control point p
\* with the locals avgRaw at avg.
Boot(pins, p, avg) ==
    /\ pin \in pins
    /\ clock = UL(0)
    /\ readings = [g \in Faders |-> [i \in Slots |-> 0]]
    /\ readIndex = [g \in Faders |-> 0]
    /\ total = [g \in Faders |-> 0]
    /\ lastMidiValue = [g \in Faders |-> NO_VALUE]
    /\ lastSendTime = [g \in Faders |-> UL(0)]
    /\ pc = p
    /\ f = 0
    /\ now = UL(0)
    /\ avgRaw \in avg
    /\ midiValue = [g \in Faders |-> 0]
    /\ wire = <<>>
    /\ hist = [g \in Faders |-> <<>>]
    /\ nSent = [g \in Faders |-> 0]
    /\ sentLast = [g \in Faders |-> NO_VALUE]
    /\ since = [g \in Faders |-> UL(0)]

InitWith(pins) == Boot(pins, "setup", {[g \in Faders |-> 0]})

Init == InitWith(PinsMain)

(* --------------------------------------------------------------- actions *)
\* setup(), lines 26-38: AVG_SIZE reads per fader, summed into total.
Setup ==
    /\ pc = "setup"
    /\ \E r \in [Faders -> UNION {Reads(pin[g], AVG_SIZE) : g \in Faders}] :
          /\ \A g \in Faders : r[g] \in Reads(pin[g], AVG_SIZE)
          /\ readings' = [g \in Faders |-> [i \in Slots |-> r[g][1][i + 1]]]
          /\ total' = [g \in Faders |-> Accumulate(total[g], r[g][1])]
          /\ hist' = [g \in Faders |-> r[g][1]]
          /\ pin' = [g \in Faders |-> r[g][2]]
    /\ pc' = "idle"
    /\ UNCHANGED <<clock, readIndex, lastMidiValue, lastSendTime, f, now, avgRaw,
                   midiValue, wire, nSent, sentLast, since>>

\* loop(), line 41 and the for statement's start: millis() is read once.
\* d is what millis() has advanced by since the call of loop() before.
Begin(d) ==
    /\ pc = "idle"
    /\ clock' = ULAdd(clock, d)
    /\ since' = [g \in Faders |-> BigAdd(since[g], d)]
    /\ now' = clock'
    /\ f' = 0
    /\ wire' = <<>>
    /\ pc' = "loop"
    /\ UNCHANGED <<pin, readings, readIndex, total, lastMidiValue, lastSendTime,
                   avgRaw, midiValue, hist, nSent, sentLast>>

LoopBegin ==
    \E d \in Deltas :
        /\ clock[1] = 0 /\ clock[2] + d <= MaxClock
        /\ Begin(UL(d))

\* (mutant) the iteration with one send time for all faders instead of one each.
FaderSharedTime ==
    /\ pc = "loop"
    /\ f < FADER_COUNT
    /\ \E s \in Head(pin[f]) :
          LET i == readIndex[f]
              t == NewTotal(total[f], readings[f][i], s)
              avg == Average(t)
              mv == MidiOf(avg)
              emit == DeadzoneOk(mv, lastMidiValue[f]) /\ IntervalOk(now, lastSendTime[f])
          IN  /\ pin' = [pin EXCEPT ![f] = Rest(@)]
              /\ readings' = [readings EXCEPT ![f][i] = s]
              /\ total' = [total EXCEPT ![f] = t]
              /\ readIndex' = [readIndex EXCEPT ![f] = NextIndex(i)]
              /\ avgRaw' = [avgRaw EXCEPT ![f] = avg]
              /\ midiValue' = [midiValue EXCEPT ![f] = mv]
              /\ hist' = [hist EXCEPT ![f] = Push(@, s)]
              /\ IF emit
                 THEN /\ wire' = wire \o SendCC(midiCC[f], mv, MIDI_CHANNEL)
                      /\ nSent' = [nSent EXCEPT ![f] = @ + 1]
                      /\ sentLast' = [sentLast EXCEPT ![f] = ToByte(mv)]
                      /\ since' = [since EXCEPT ![f] = UL(0)]
                 ELSE UNCHANGED <<wire, nSent, sentLast, since>>
              /\ lastMidiValue' = [lastMidiValue EXCEPT ![f] = SentValue(emit, mv, @)]
              /\ lastSendTime' = [g \in Faders |-> SentTime(emit, now, lastSendTime[g])]
    /\ f' = f + 1
    /\ pc' = IF f + 1 < FADER_COUNT THEN "loop" ELSE "idle"
    /\ UNCHANGED <<clock, now>>

\* loop(), lines 43-74: one iteration of the for statement, for fader f.
Fader ==
    /\ pc = "loop"
    /\ f < FADER_COUNT
    /\ \E s \in Head(pin[f]) :
          LET i == readIndex[f]
              t == NewTotal(total[f], readings[f][i], s)
              avg == Average(t)
              mv == MidiOf(avg)
              emit == DeadzoneOk(mv, lastMidiValue[f]) /\ IntervalOk(now, lastSendTime[f])
          IN  /\ pin' = [pin EXCEPT ![f] = Rest(@)]
              /\ readings' = [readings EXCEPT ![f][i] = s]
              /\ total' = [total EXCEPT ![f] = t]
              /\ readIndex' = [readIndex EXCEPT ![f] = NextIndex(i)]
              /\ avgRaw' = [avgRaw EXCEPT ![f] = avg]
              /\ midiValue' = [midiValue EXCEPT ![f] = mv]
              /\ hist' = [hist EXCEPT ![f] = Push(@, s)]
              /\ IF emit
                 THEN /\ wire' = wire \o SendCC(midiCC[f], mv, MIDI_CHANNEL)
                      /\ nSent' = [nSent EXCEPT ![f] = @ + 1]
                      /\ sentLast' = [sentLast EXCEPT ![f] = ToByte(mv)]
                      /\ since' = [since EXCEPT ![f] = UL(0)]
                 ELSE UNCHANGED <<wire, nSent, sentLast, since>>
              /\ lastMidiValue' = [lastMidiValue EXCEPT ![f] = SentValue(emit, mv, @)]
              /\ lastSendTime' = [lastSendTime EXCEPT ![f] = SentTime(emit, now, @)]
    /\ f' = f + 1
    /\ pc' = IF f + 1 < FADER_COUNT THEN "loop" ELSE "idle"
    /\ UNCHANGED <<clock, now>>

Next == Setup \/ LoopBegin \/ Fader

Spec == Init /\ [][Next]_vars

\* The same program on samples outside the raw range.
InitWild == InitWith(PinsWild)
SpecWild == InitWild /\ [][Next]_vars

\* The same program with one fader held at full scale.
InitFull == InitWith(PinsFull)
SpecFull == InitFull /\ [][Next]_vars

\* The same program with one fader on the slow ramp.
InitRamp == InitWith(PinsRamp)
SpecRamp == InitRamp /\ [][Next]_vars

\* The same program across the wrap of the millisecond counter.  millis() is
\* an input: the first call of loop() finds it WrapLead ms short of 2^32 (a
\* sketch that has had nothing to send for 49 days), and from there it
\* advances by Deltas through 0 and up to MaxClock.
FarJump == <<HALF - 1, HALF - WrapLead>>

LoopBeginWrap ==
    \/ /\ \A g \in Faders : since[g] = UL(0) /\ nSent[g] = 0
       /\ Begin(FarJump)
    \/ /\ \E g \in Faders : since[g] # UL(0) \/ nSent[g] # 0
       /\ \E d \in Deltas :
             LET c == ULAdd(clock, UL(d))
             IN  /\ c[1] = HALF - 1 \/ (c[1] = 0 /\ c[2] <= MaxClock)
                 /\ Begin(UL(d))

NextWrap == Setup \/ LoopBeginWrap \/ Fader

SpecWrap == Init /\ [][NextWrap]_vars

\* The same program with one fader coming to rest.  The Arduino core calls
\* loop() again as soon as it returns, for ever, so a step that can be taken
\* is taken.
InitSettle == InitWith(PinsSettle)
SpecSettle == InitSettle /\ [][Next]_vars /\ WF_vars(Next)

\* The conversion of lines 58-66 alone, on every average of the range: control
\* stands after line 55 with avgRaw computed, and Convert runs lines 58-66.
InitMap ==
    Boot({[g \in Faders |-> Free({0})]}, "map",
         {[g \in Faders |-> a] : a \in (-AvgBound) .. AvgBound})

Convert ==
    /\ pc = "map"
    /\ midiValue' = [g \in Faders |-> MidiOf(avgRaw[g])]
    /\ pc' = "mapped"
    /\ UNCHANGED <<pin, clock, readings, readIndex, total, lastMidiValue, lastSendTime,
                   f, now, avgRaw, wire, hist, nSent, sentLast, since>>

NextMap == Convert

SpecMap == InitMap /\ [][NextMap]_vars

\* The conversion on every pair a <= b of averages strictly between the two
\* endzone boundaries, a as fader 0's average and b as fader 1's.
Between == (RAW_ENDZONE + 1) .. (RAW_MAX - RAW_ENDZONE - 1)
InitPair ==
    Boot({[g \in Faders |-> Free({0})]}, "map",
         {[g \in Faders |-> q[g + 1]] : q \in {r \in Between \X Between : r[1] <= r[2]}})

SpecPair == InitPair /\ [][NextMap]_vars

(* ---------------------------------------------------------------- claims *)
\* A step of loop()'s for statement, for fader f.
FaderStep == pc = "loop" /\ f' = f + 1
\* Whether a step handed anything to MidiUSB.
Emits == wire' # wire
\* Fader g has been processed in the latest call of loop().
Processed(g) == f > g
\* The current call of loop() has sent a message for fader g.
SentFor(g) == \E k \in 1 .. Len(wire) : wire[k].op = "send" /\ wire[k].data1 = midiCC[g]
\* Milliseconds from t0 to t1 on a clock that has not wrapped (high halves 0).
Ms(t0, t1) == t1[2] - t0[2]
NoWrap == clock[1] = 0 /\ now[1] = 0 /\ \A g \in Faders : lastSendTime[g][1] = 0

\* C1: after setup() and after every iteration of loop(), total[g] is the sum of
\* the AVG_SIZE values in readings[g], and these are, oldest first from
\* readIndex[g] on, the AVG_SIZE samples most recently read from fader g.
C1_BufferInvariant ==
    pc \in {"idle", "loop"} =>
        \A g \in Faders :
            /\ total[g] = SumSlots(readings[g], AVG_SIZE)
            /\ Len(hist[g]) = AVG_SIZE
            /\ \A i \in Slots : readings[g][(readIndex[g] + i) % AVG_SIZE] = hist[g][i + 1]

\* C1 witness: a buffer that has been written round past its start, holding a
\* mix of samples.
C1_Witness ==
    \E g \in Faders :
        /\ pc = "idle" /\ readIndex[g] = 2
        /\ hist[g] = <<60, 0, 0, 60, 0>>
        /\ nSent[g] > 0
        /\ total[g] = 120

\* C2 (as claimed): a step for a fader that has not emitted yet, at a clock value
\* with now - 0 >= SEND_INTERVAL, sends exactly one message, whatever the output.
C2_FirstEmissionUnconditional ==
    [][(FaderStep /\ lastMidiValue[f] = NO_VALUE /\ NoWrap /\ Ms(UL(0), now) >= 15)
          => wire' = wire \o SendCC(midiCC[f], midiValue'[f], MIDI_CHANNEL)]_vars

\* C3: a step for a fader that has already emitted sends nothing when its output
\* is less than 3 away from the last emitted value, whatever time has passed.
C3_DeadzoneSuppression ==
    [][(FaderStep /\ nSent[f] > 0 /\ Abs(midiValue'[f] - lastMidiValue[f]) < 3)
          => ~Emits]_vars

\* C3 witness: a fader processed without emission, 2 away from its last emitted
\* value, with the interval long elapsed.
C3_Witness ==
    \E g \in Faders :
        /\ Processed(g) /\ ~SentFor(g) /\ nSent[g] > 0
        /\ Abs(midiValue[g] - lastMidiValue[g]) = 2
        /\ NoWrap /\ Ms(lastSendTime[g], now) >= 2 * 15

\* C4: a step for a fader sends nothing when fewer than 15 ms separate the
\* tick's clock value from the fader's last emission time (0 at the start).
C4_RateLimit ==
    [][(FaderStep /\ NoWrap /\ Ms(lastSendTime[f], now) < 15) => ~Emits]_vars

\* C4 witness: a fader processed without emission 14 ms after its last emission,
\* with an output 5 away from the last emitted value.
C4_Witness ==
    \E g \in Faders :
        /\ Processed(g) /\ ~SentFor(g) /\ nSent[g] > 0
        /\ Abs(midiValue[g] - lastMidiValue[g]) >= 5
        /\ NoWrap /\ Ms(lastSendTime[g], now) = 14

\* C5: a step that emits for fader f sets lastMidiValue[f] to the emitted output
\* and lastSendTime[f] to the tick's clock value; a step that does not emit
\* leaves both unchanged.
C5_EmissionUpdate ==
    [][FaderStep =>
          IF Emits
          THEN /\ lastMidiValue'[f] = midiValue'[f]
               /\ wire'[Len(wire') - 1].data2 = midiValue'[f]
               /\ lastSendTime'[f] = now
          ELSE /\ lastMidiValue'[f] = lastMidiValue[f]
               /\ lastSendTime'[f] = lastSendTime[f]]_vars

\* C5 witness: the second emission of a fader, at clock 30, overwriting the
\* record of the first.
C5_Witness ==
    \E g \in Faders :
        /\ Processed(g) /\ SentFor(g) /\ nSent[g] = 2
        /\ now = UL(30) /\ lastSendTime[g] = UL(30)
        /\ lastMidiValue[g] = midiValue[g]

\* C6: every average of 20 or less converts to 0 and every average of 1003 or
\* more converts to 127, averages below 0 and above 1023 included.
C6_EndpointSnapping ==
    pc = "mapped" =>
        \A g \in Faders :
            /\ avgRaw[g] <= 20 => midiValue[g] = 0
            /\ avgRaw[g] >= 1003 => midiValue[g] = 127

\* C6 witness: the lowest average that snaps to 127.
C6_Witness == pc = "mapped" /\ avgRaw[0] = 1003 /\ midiValue[0] = 127

\* C7: on samples outside 0 .. 1023 too, the output of every tick, the data2
\* byte of every message and every stored last emitted value other than the
\* sentinel lie in 0 .. 127.
C7_OutputRange ==
    pc \in {"idle", "loop"} =>
        /\ \A g \in Faders :
              /\ midiValue[g] \in 0 .. 127
              /\ lastMidiValue[g] = -1 \/ lastMidiValue[g] \in 0 .. 127
        /\ \A k \in 1 .. Len(wire) : wire[k].op = "send" => wire[k].data2 \in 0 .. 127

\* C7 witness: an emission on an average of 2000, far above the raw range, from
\* a buffer that also holds a sample of -2000.
C7_Witness ==
    \E g \in Faders :
        /\ Processed(g) /\ SentFor(g)
        /\ avgRaw[g] = 2000 /\ lastMidiValue[g] = 127
        /\ \E i \in Slots : readings[g][i] = -2000

\* C8: a step that emits for fader f hands MidiUSB exactly one event, header
\* 0x0B, status 0xB0, data1 7 for fader 0 and 8 for fader 1, data2 the output
\* of the tick, then one flush, all within the step; nothing else writes to
\* the transport.
C8_ControlChange ==
    [][/\ FaderStep =>
            \/ wire' = wire /\ nSent' = nSent
            \/ /\ wire' = wire \o <<[op |-> "send", header |-> 11, status |-> 176,
                                     data1 |-> IF f = 0 THEN 7 ELSE 8,
                                     data2 |-> midiValue'[f]],
                                    [op |-> "flush"]>>
               /\ nSent' = [nSent EXCEPT ![f] = @ + 1]
       /\ ~FaderStep => (wire' = wire \/ wire' = <<>>) /\ nSent' = nSent]_vars

\* C8 witness: a tick in which both faders emit, each send followed by its flush.
C8_Witness ==
    /\ Len(wire) = 4
    /\ wire[1].op = "send" /\ wire[1].data1 = 7 /\ wire[2].op = "flush"
    /\ wire[3].op = "send" /\ wire[3].data1 = 8 /\ wire[4].op = "flush"

\* C9: a fader that reads 1023 at every sample has average 1023 and output 127
\* on every tick, has emitted exactly once, the value 127, as soon as it has
\* been processed at a clock value of 15 or more, and never emits again.
C9_FullScaleOnce ==
    \A g \in Faders :
        pin[g] = <<{1023}>> =>
            /\ nSent[g] <= 1
            /\ hist[g] # <<>> /\ Processed(g) => avgRaw[g] = 1023 /\ midiValue[g] = 127
            /\ nSent[g] = 1 => lastMidiValue[g] = 127
            /\ \A k \in 1 .. Len(wire) :
                  wire[k].op = "send" /\ wire[k].data1 = midiCC[g] => wire[k].data2 = 127
            /\ Processed(g) /\ NoWrap /\ Ms(UL(0), now) >= 15 => nSent[g] = 1

\* C9 witness: the full-scale fader processed at clock 45, 30 ms after its one
\* emission, without a second one.
C9_Witness ==
    \E g \in Faders :
        /\ pin[g] = <<{1023}>> /\ Processed(g) /\ ~SentFor(g)
        /\ nSent[g] = 1 /\ lastSendTime[g] = UL(15) /\ now = UL(45)

\* A step for the fader on the ramp that reads one of the ramp's five samples.
RampTick == FaderStep /\ Len(pin[f]) \in 2 .. 6

\* C10: on the ramp 500 .. 520 the output moves by less than 3 from one tick to
\* the next, and a tick at which the interval has elapsed emits exactly when its
\* output is 3 or more away from the last emitted value.
C10_SlowRamp ==
    [][RampTick =>
          /\ Len(pin[f]) <= 5 => Abs(midiValue'[f] - midiValue[f]) < 3
          /\ (NoWrap /\ Ms(lastSendTime[f], now) >= 15) =>
                (Emits <=> Abs(midiValue'[f] - lastMidiValue[f]) >= 3)]_vars

\* C10 witness: the last tick of the ramp, whose output 63 differs from the
\* output 62 of the tick before and from the emitted 62, and is suppressed.
C10_Witness ==
    \E g \in Faders :
        /\ Len(pin[g]) = 1 /\ hist[g] = <<500, 505, 510, 515, 520>>
        /\ Processed(g) /\ ~SentFor(g)
        /\ midiValue[g] = 63 /\ lastMidiValue[g] = 62
        /\ NoWrap /\ Ms(lastSendTime[g], now) >= 15

\* C11: for averages a <= b strictly between the endzone boundaries
\* (20 < a <= b < 1003) the output of a is at most the output of b.
C11_Monotonic ==
    (pc = "mapped" /\ 20 < avgRaw[0] /\ avgRaw[0] <= avgRaw[1] /\ avgRaw[1] < 1003)
        => midiValue[0] <= midiValue[1]

\* C11 witness: the two ends of the proportional range, converted to 2 and 124.
C11_Witness ==
    /\ pc = "mapped" /\ avgRaw[0] = 21 /\ avgRaw[1] = 1002
    /\ midiValue[0] = 2 /\ midiValue[1] = 124

\* C12: once the latest five reads of a fader all returned the same value V,
\* whatever the buffer held before, the average computed on that tick, and on
\* every further tick reading V, is V exactly.
C12_AverageOfConstant ==
    [][(FaderStep /\ Len(hist'[f]) = 5 /\ \A i \in 1 .. 5 : hist'[f][i] = hist'[f][1])
          => avgRaw'[f] = hist'[f][1]]_vars

\* C12 witness: a fader that emitted 7 on a buffer full of 60 and has since read
\* 0 five times: the average is 0.
C12_Witness ==
    \E g \in Faders :
        /\ Processed(g) /\ nSent[g] = 1 /\ lastMidiValue[g] = 7
        /\ hist[g] = <<0, 0, 0, 0, 0>> /\ avgRaw[g] = 0

\* C13: lastMidiValue[g] is the sentinel -1 exactly while fader g has sent no
\* message; it leaves -1 only in a step that emits, and never returns to it.
C13_NoneUntilFirstEmission ==
    [][/\ \A g \in Faders : (lastMidiValue[g] = -1) <=> (nSent[g] = 0)
       /\ \A g \in Faders :
             /\ (lastMidiValue[g] = -1 /\ lastMidiValue'[g] # -1)
                   => (FaderStep /\ f = g /\ Emits)
             /\ lastMidiValue[g] # -1 => lastMidiValue'[g] # -1
       /\ \A g \in Faders : (lastMidiValue'[g] = -1) <=> (nSent'[g] = 0)]_vars

\* C13 witness: a fader whose second message carried the value 0: back at the
\* low end, and not back at the sentinel.
C13_Witness ==
    \E g \in Faders : nSent[g] = 2 /\ lastMidiValue[g] = 0 /\ sentLast[g] = 0

\* The output the code's arithmetic gives for a window of five samples.
OutputOf(h) == MidiOf(Average(SumSlots([i \in Slots |-> h[i + 1]], AVG_SIZE)))

\* C14: a step for fader f leaves the buffer, sum, cursor, last emitted value
\* and last emission time of every other fader unchanged, and whether and what
\* it emits is decided by fader f's own last five samples, last emitted value
\* and last emission time and the tick's clock value alone.
C14_ChannelIndependence ==
    [][FaderStep =>
          /\ \A g \in Faders \ {f} :
                /\ readings'[g] = readings[g] /\ total'[g] = total[g]
                /\ readIndex'[g] = readIndex[g]
                /\ lastMidiValue'[g] = lastMidiValue[g]
                /\ lastSendTime'[g] = lastSendTime[g]
          /\ Emits <=> (/\ Abs(OutputOf(hist'[f]) - lastMidiValue[f]) >= 3
                        /\ ULGe(ULSub(now, lastSendTime[f]), UL(15)))
          /\ Emits => wire'[Len(wire') - 1].data2 = OutputOf(hist'[f])]_vars

\* C14 witness: fader 1 emits in a tick in which fader 0, which emitted 15 ms
\* before with another value, stays silent and keeps its record.
C14_Witness ==
    /\ Processed(1) /\ SentFor(1) /\ ~SentFor(0)
    /\ nSent[0] = 1 /\ lastSendTime[0] = UL(15) /\ lastSendTime[1] = UL(30)
    /\ lastMidiValue[0] # lastMidiValue[1]

\* C15: the cursor of every fader stays in 0 .. 4 and advances by one modulo 5
\* per tick; the slot a tick overwrites holds the oldest of the five stored
\* samples; the sum loses that value and gains the new sample, and the average
\* is taken from the updated sum.
C15_CursorDiscipline ==
    [][FaderStep =>
          LET i == readIndex[f]
              s == hist'[f][5]
          IN  /\ i \in 0 .. 4 /\ readIndex'[f] \in 0 .. 4
              /\ readIndex'[f] = (i + 1) % 5
              /\ readings[f][i] = hist[f][1]
              /\ readings'[f] = [readings[f] EXCEPT ![i] = s]
              /\ total'[f] = total[f] - readings[f][i] + s
              /\ total'[f] >= 0 => avgRaw'[f] = total'[f] \div 5]_vars

\* C15 witness: a cursor back at 0 after a full round, the buffer holding the
\* five samples of that round in slot order.
C15_Witness ==
    \E g \in Faders :
        /\ Processed(g) /\ readIndex[g] = 0
        /\ hist[g] = <<60, 0, 60, 0, 0>>
        /\ \A i \in Slots : readings[g][i] = hist[g][i + 1]

\* The data2 byte of the message a step has just sent.
SentNow == wire'[Len(wire') - 1].data2

\* C16: on each fader, a message's value is 3 or more away from the value of
\* the message before it on that fader; the same value is never sent twice in
\* a row.
C16_NoJitterMessages ==
    [][(FaderStep /\ Emits /\ nSent[f] > 0)
          => (Abs(SentNow - sentLast[f]) >= 3 /\ SentNow # sentLast[f])]_vars

\* C16 witness: a second message with the value 5, which can only follow a
\* first message with the value 2: exactly 3 apart.
C16_Witness ==
    \E g \in Faders : Processed(g) /\ SentFor(g) /\ nSent[g] = 2 /\ sentLast[g] = 5

\* C17: while the clock has not wrapped, a message is sent only at a clock
\* value of 15 or more and 15 ms or more after the message before it on the
\* same fader; both faders may send in one tick, at the same clock value.
C17_MinimumSpacing ==
    [][(FaderStep /\ Emits /\ NoWrap)
          => /\ now[2] >= 15
             /\ since[f][1] > 0 \/ since[f][2] >= 15]_vars

\* C17 witness: both faders send in the tick at clock 15, the first at which
\* either may send.
C17_Witness ==
    /\ Len(wire) = 4 /\ now = UL(15)
    /\ \A g \in Faders : nSent[g] = 1 /\ lastSendTime[g] = UL(15) /\ since[g] = UL(0)

\* Fader g is at rest and about to be processed with the interval elapsed.
Due(g) ==
    /\ pc = "loop" /\ f = g /\ Len(pin[g]) = 1
    /\ since[g][1] > 0 \/ since[g][2] >= 15
\* Fader g has sent nothing in the current call of loop() and its output is
\* less than 3 away from its last emitted value.
Quiet(g) == ~SentFor(g) /\ Abs(midiValue[g] - lastMidiValue[g]) < 3

TrueBelowWidth(g) == since[g][1] < HALF
TrueElapsed(g) == since[g][1] > 0 \/ since[g][2] >= 15

\* C19: also when the millisecond counter wraps between a message and a later
\* tick, and as long as the true time since the message is below 2^32 ms, a
\* message is not sent earlier than 15 ms after the one before, and is not
\* held back by the interval once 15 ms have truly elapsed.
C19_ClockWraparound ==
    [][(FaderStep /\ TrueBelowWidth(f)) =>
          /\ Emits => TrueElapsed(f)
          /\ (TrueElapsed(f) /\ Abs(midiValue'[f] - lastMidiValue[f]) >= 3) => Emits]_vars

\* C19 witness: a message sent at clock value 0, just wrapped, 15 ms after a
\* message sent at clock value 2^32 - 15.
C19_Witness ==
    \E g \in Faders :
        /\ Processed(g) /\ SentFor(g) /\ nSent[g] >= 2
        /\ now = UL(0) /\ lastSendTime[g] = UL(0) /\ since[1 - g][1] = 0

\* C20: whatever the average, the output is never 1, 125 or 126; an output
\* other than 0 and 127 comes from an average in 21 .. 1002; and an average in
\* 21 .. 1002 gives map()'s own result, which lies in 2 .. 124, so that the
\* clamp changes nothing.
C20_ReachableOutputs ==
    pc = "mapped" =>
        \A g \in Faders :
            /\ midiValue[g] \notin {1, 125, 126}
            /\ midiValue[g] \notin {0, 127} => avgRaw[g] \in 21 .. 1002
            /\ avgRaw[g] \in 21 .. 1002 =>
                  /\ midiValue[g] = Map(avgRaw[g], 0, 1023, 0, 127)
                  /\ midiValue[g] \in 2 .. 124

\* C20 witness: the highest average of the proportional branch, converted to
\* 124, the highest value below 127 that the output takes.
C20_Witness == pc = "mapped" /\ \A g \in Faders : avgRaw[g] = 1002 /\ midiValue[g] = 124

====
